---- MODULE Spec2Model ----
(***************************************************************************)
(* Model of src/app.py: the module-level startup (environment check,      *)
(* Bedrock client construction, route registration) and the POST /chat    *)
(* handler `chat`, which suspends once at client.retrieve_and_generate.   *)
(*                                                                         *)
(* Python strings the handler inspects (the message, reference texts,     *)
(* snippets) are sequences of one-character strings; Python dicts are     *)
(* functions whose DOMAIN is the set of keys that are present.            *)
(***************************************************************************)
EXTENDS Integers, Sequences, FiniteSets, TLC

VARIABLES
    env,            \* os.environ restricted to the five names app.py reads
    pc,             \* position of the module body: "boot", "aborted", "serving"
    AWS_REGION,     \* module global set at line 11
    startup_error,  \* the exception that ended the module body, or None
    routes,         \* URL rules registered on `app` so far
    hpc,            \* position of chat(): "idle", "awaiting" (inside the call), "done"
    req,            \* the JSON body of the request being handled
    user_message,   \* local of chat(), line 128
    extCalls,       \* times client.retrieve_and_generate was invoked for this request
    extInput,       \* input.text of the last invocation
    extResult,      \* what the invocation returned or raised
    response,       \* the (body, status) chat() returned, or None
    escaped         \* the exception that left chat() uncaught, or None

vars == << env, pc, AWS_REGION, startup_error, routes, hpc, req, user_message,
           extCalls, extInput, extResult, response, escaped >>

None == [type |-> "None"]

(***************************************************************************)
(* Bounds of the model.                                                    *)
(***************************************************************************)
MaxMsgLen == 2        \* generated messages have at most this many characters
MaxCitations == 2     \* citations in one external result
MaxRefs == 3          \* references in one external result, over all its citations
TextOver == 3         \* reference texts run up to SnippetLimit + TextOver chars

(***************************************************************************)
(* Python dict helpers.                                                    *)
(***************************************************************************)
EmptyDict == <<>>

Has(d, k) == k \in DOMAIN d

\* d.get(k, default)
Get(d, k, default) == IF Has(d, k) THEN d[k] ELSE default

(***************************************************************************)
(* Python str helpers on character sequences.                              *)
(***************************************************************************)
UpperChars ==
    <<"A","B","C","D","E","F","G","H","I","J","K","L","M","N","O","P","Q","R","S","T","U","V","W","X","Y","Z">>

LowerChars ==
    <<"a","b","c","d","e","f","g","h","i","j","k","l","m","n","o","p","q","r","s","t","u","v","w","x","y","z">>

Whitespace == {" ", "\t", "\n", "\r"}

UpperToLower ==
    [c \in {UpperChars[k] : k \in 1..Len(UpperChars)} |->
        LowerChars[CHOOSE k \in 1..Len(UpperChars) : UpperChars[k] = c]]

LowerChar(c) == IF c \in DOMAIN UpperToLower THEN UpperToLower[c] ELSE c

\* str.lower()
Lower(s) == [k \in 1..Len(s) |-> LowerChar(s[k])]

\* Strip with the .strip() call left out
StripNothing(s) == s

\* str.strip(): drop leading and trailing whitespace
Strip(s) ==
    LET keep == {k \in 1..Len(s) : s[k] \notin Whitespace}
    IN  IF keep = {} THEN <<>>
        ELSE LET lo == CHOOSE k \in keep : \A j \in keep : k <= j
                 hi == CHOOSE k \in keep : \A j \in keep : k >= j
             IN  SubSeq(s, lo, hi)

\* `sub in s`
Contains(s, sub) ==
    \E k \in 0..(Len(s) - Len(sub)) : \A j \in 1..Len(sub) : s[k + j] = sub[j]

(***************************************************************************)
(* Startup: lines 9-27 and the route decorators at 117 and 126.            *)
(***************************************************************************)
Unset == "<unset>"

DefaultRegion == "ap-south-1"

required_vars == <<"AWS_ACCESS_KEY_ID", "AWS_SECRET_ACCESS_KEY", "KB_ID", "MODEL_ARN">>

EnvNames == {required_vars[k] : k \in 1..Len(required_vars)} \cup {"AWS_REGION"}

EnvValues(n) == IF n = "AWS_REGION" THEN {Unset, "", "us-east-1"} ELSE {Unset, "", "v"}

\* os.environ.get(name, default)
EnvGet(e, name, default) == IF e[name] = Unset THEN default ELSE e[name]

RECURSIVE FilterUnsetOnly(_, _)
\* Filter testing `is None` instead of `not`: an empty value passes
FilterUnsetOnly(names, e) ==
    IF names = <<>> THEN <<>>
    ELSE LET rest == FilterUnsetOnly(Tail(names), e)
         IN  IF EnvGet(e, Head(names), Unset) = Unset
             THEN <<Head(names)>> \o rest
             ELSE rest

RECURSIVE Filter(_, _)
\* [var for var in names if not os.environ.get(var)]
Filter(names, e) ==
    IF names = <<>> THEN <<>>
    ELSE LET rest == Filter(Tail(names), e)
         IN  IF EnvGet(e, Head(names), Unset) \in {Unset, ""}
             THEN <<Head(names)>> \o rest
             ELSE rest

missing(e) == Filter(required_vars, e)

\* boto3.Session(...).client(...), lines 22-27.  Construction is local; the
\* one input app.py controls that can make it raise is an empty region name,
\* which botocore releases either reject (InvalidRegionError) or accept.
ClientOutcomes(region) == IF region = "" THEN {"ok", "InvalidRegionError"} ELSE {"ok"}

Startup ==
    /\ pc = "boot"
    /\ AWS_REGION' = EnvGet(env, "AWS_REGION", DefaultRegion)
    /\ IF missing(env) # <<>>
       THEN /\ pc' = "aborted"
            /\ startup_error' = [type |-> "EnvironmentError", names |-> missing(env)]
            /\ routes' = {}
       ELSE \E outcome \in ClientOutcomes(AWS_REGION') :
              IF outcome = "ok"
              THEN /\ pc' = "serving"
                   /\ startup_error' = None
                   /\ routes' = {"/", "/chat"}
              ELSE /\ pc' = "aborted"
                   /\ startup_error' = [type |-> outcome, names |-> <<>>]
                   /\ routes' = {}
    /\ UNCHANGED << env, hpc, req, user_message, extCalls, extInput, extResult,
                    response, escaped >>

(***************************************************************************)
(* Request bodies.  A JSON value is tagged with its type.                  *)
(***************************************************************************)
JsonStr(s) == [type |-> "str", val |-> s]

JsonNull == [type |-> "null"]

JsonInt(n) == [type |-> "int", val |-> n]

JsonObject(d) == [type |-> "object", val |-> d]

JsonArray == [type |-> "array"]

MsgAlphabet == {"h", "I", " "}

SeqsUpTo(S, n) == UNION {[1..k -> S] : k \in 0..n}

SampleMessages ==
    { <<>>,
      <<" "," "," ">>,
      <<"\t","\n"," ">>,
      <<"t","h","i","s">>,
      <<"H","e","l","l","o">>,
      <<" ","H","E","Y"," ">>,
      <<"h","i","i">>,
      <<"G","o","o","d"," ","M","o","r","n","i","n","g">>,
      <<"g","o","o","d"," ","a","f","t","e","r","n","o","o","n">>,
      <<"g","o","o","d"," ","e","v","e","n","i","n","g","!">>,
      <<"W","h","a","t"," ","i","s"," ","y","o","u","r"," ","n","a","m","e","?">>,
      <<"W","H","O"," ","A","R","E"," ","Y","O","U">>,
      <<"w","h","a","t"," ","c","a","n"," ","y","o","u"," ","d","o">>,
      <<"H","o","w"," ","a","r","e"," ","y","o","u">>,
      <<"W","h","a","t"," ","a","r","e"," ","P","O","S","P"," ","K","Y","C"," ","r","u","l","e","s","?">>,
      <<"\t","k","y","c","\n">>,
      <<"H"," ","I">>,
      <<"t","e","l","l"," ","m","e"," ","a","b","o","u","t"," ","i","r","d","a","i">> }

Messages == SampleMessages \cup SeqsUpTo(MsgAlphabet, MaxMsgLen)

Bodies ==
    {JsonObject(EmptyDict), JsonObject([message |-> JsonNull]),
     JsonObject([message |-> JsonInt(42)]), JsonArray}
    \cup {JsonObject([message |-> JsonStr(m)]) : m \in Messages}

(***************************************************************************)
(* Results of client.retrieve_and_generate.                                *)
(***************************************************************************)
SnippetLimit == 500

TextChars == <<"a", "b", "c">>

MkText(n) == [k \in 1..n |-> TextChars[(k % 3) + 1]]

S3Location(u) == [s3Location |-> [uri |-> u]]

RefWithUri == [content |-> [text |-> MkText(2)], location |-> S3Location("s3://a")]

RefNoLocation == [content |-> [text |-> MkText(1)]]

RefNoContent == [location |-> S3Location("s3://b")]

RefSet == {RefWithUri, RefNoLocation, RefNoContent}

\* a citation holding at most n references; EmptyDict has no
\* retrievedReferences key at all
CitationSet(n) ==
    {EmptyDict} \cup {[retrievedReferences |-> rs] : rs \in SeqsUpTo(RefSet, n)}

\* len(citation.get('retrievedReferences', []))
RefCount(citation) == Len(Get(citation, "retrievedReferences", <<>>))

RECURSIVE CitationListsOf(_, _)
\* the lists of at most n citations holding at most budget references in all
CitationListsOf(n, budget) ==
    {<<>>} \cup
    (IF n = 0 THEN {}
     ELSE UNION { {<<c>> \o rest : rest \in CitationListsOf(n - 1, budget - RefCount(c))} :
                  c \in CitationSet(budget) })

CitationLists == CitationListsOf(MaxCitations, MaxRefs)

GoodOutput == [text |-> "<div>ok</div>"]

Returned(v) == [raised |-> FALSE, value |-> v]

Raised(d) == [raised |-> TRUE, desc |-> d]

\* results with the generated text missing
NoTextValues ==
    { EmptyDict,
      [output |-> EmptyDict],
      [citations |-> <<>>],
      [output |-> EmptyDict, citations |-> <<[retrievedReferences |-> <<RefWithUri>>]>>] }

ExtValues ==
    NoTextValues
    \cup {[output |-> GoodOutput]}
    \cup {[output |-> GoodOutput, citations |-> c] : c \in CitationLists}

ExtFailures == {"ThrottlingException: rate exceeded", "Read timeout on endpoint URL"}

ExtResults == {Returned(v) : v \in ExtValues} \cup {Raised(d) : d \in ExtFailures}


(***************************************************************************)
(* chat(), lines 126-192.                                                  *)
(***************************************************************************)
Json(body, status) == [status |-> status, body |-> body]

\* line 128: request.json.get("message", "").strip()
Line128(body) ==
    IF body.type # "object"
    THEN Raised("AttributeError: no attribute 'get'")
    ELSE LET m == Get(body.val, "message", JsonStr(<<>>))
         IN  IF m.type # "str"
             THEN Raised("AttributeError: no attribute 'strip'")
             ELSE Returned(Strip(m.val))

greeting_keywords ==
    << <<"h","i">>,
       <<"h","e","l","l","o">>,
       <<"h","i","i">>,
       <<"h","e","y">>,
       <<"g","o","o","d"," ","m","o","r","n","i","n","g">>,
       <<"g","o","o","d"," ","a","f","t","e","r","n","o","o","n">>,
       <<"g","o","o","d"," ","e","v","e","n","i","n","g">>,
       <<"w","h","a","t"," ","i","s"," ","y","o","u","r"," ","n","a","m","e">>,
       <<"w","h","o"," ","a","r","e"," ","y","o","u">>,
       <<"w","h","a","t"," ","c","a","n"," ","y","o","u"," ","d","o">>,
       <<"y","o","u","r"," ","n","a","m","e">>,
       <<"h","o","w"," ","a","r","e"," ","y","o","u">> >>

\* line 169
user_lower(msg) == Strip(Lower(msg))

\* line 171: any(keyword in user_lower for keyword in greeting_keywords)
IsGreeting(msg) ==
    LET lowered == user_lower(msg)
    IN  \E k \in 1..Len(greeting_keywords) : Contains(lowered, greeting_keywords[k])

Ellipsis == <<".", ".", ".">>

\* s[:n]
Prefix(s, n) == SubSeq(s, 1, IF Len(s) < n THEN Len(s) ELSE n)

\* Snippet with `>=` for `>`
SnippetAtLimitToo(text) ==
    Prefix(text, SnippetLimit) \o (IF Len(text) >= SnippetLimit THEN Ellipsis ELSE <<>>)

\* line 178: text[:500] + ("..." if len(text) > 500 else "")
Snippet(text) ==
    Prefix(text, SnippetLimit) \o (IF Len(text) > SnippetLimit THEN Ellipsis ELSE <<>>)

\* line 179
Uri(ref) == Get(Get(Get(ref, "location", EmptyDict), "s3Location", EmptyDict), "uri", "N/A")

\* lines 180-184
SourceEntry(i, ref) ==
    [id |-> i, snippet |-> Snippet(Get(ref.content, "text", <<>>)), file |-> Uri(ref)]

\* RefLoop leaving the inner loop after its first append
RefLoopFirstOnly(refs, i) ==
    IF refs = <<>> THEN Returned(<<>>)
    ELSE IF ~Has(Head(refs), "content") THEN Raised("'content'")
    ELSE Returned(<<SourceEntry(i, Head(refs))>>)

RECURSIVE RefLoop(_, _)
\* lines 177-184 for one citation: the entries appended, or the KeyError of
\* ref['content'] at the first reference that lacks the key
RefLoop(refs, i) ==
    IF refs = <<>> THEN Returned(<<>>)
    ELSE IF ~Has(Head(refs), "content") THEN Raised("'content'")
    ELSE LET rest == RefLoop(Tail(refs), i)
         IN  IF rest.raised THEN rest
             ELSE Returned(<<SourceEntry(i, Head(refs))>> \o rest.value)

RECURSIVE CitationLoop(_, _)
\* lines 176-184: enumerate(citations, 1), from the citation numbered i
CitationLoop(citations, i) ==
    IF citations = <<>> THEN Returned(<<>>)
    ELSE LET first == RefLoop(Get(Head(citations), "retrievedReferences", <<>>), i)
         IN  IF first.raised THEN first
             ELSE LET rest == CitationLoop(Tail(citations), i + 1)
                  IN  IF rest.raised THEN rest
                      ELSE Returned(first.value \o rest.value)

\* Sources without the greeting branch
SourcesAlwaysExtracted(result, msg) == CitationLoop(Get(result, "citations", <<>>), 1)

\* Sources with enumerate(...) left at its default start of 0
SourcesZeroBased(result, msg) ==
    IF IsGreeting(msg) THEN Returned(<<>>)
    ELSE CitationLoop(Get(result, "citations", <<>>), 0)

\* Sources extracting before it tests for a greeting
SourcesExtractFirst(result, msg) ==
    LET extracted == CitationLoop(Get(result, "citations", <<>>), 1)
    IN  IF extracted.raised THEN extracted
        ELSE IF IsGreeting(msg) THEN Returned(<<>>)
        ELSE extracted

\* lines 171-184
Sources(result, msg) ==
    IF IsGreeting(msg) THEN Returned(<<>>)
    ELSE CitationLoop(Get(result, "citations", <<>>), 1)

\* Shape answering a failed call with an empty reply beside the error
ShapePartial(ext, msg) ==
    IF ext.raised
    THEN Json([error |-> ext.desc, reply |-> "", sources |-> <<>>], 500)
    ELSE IF ~Has(ext.value, "output") THEN Json([error |-> "'output'"], 500)
    ELSE IF ~Has(ext.value.output, "text") THEN Json([error |-> "'text'"], 500)
    ELSE LET bot_reply == ext.value.output.text
             sources == Sources(ext.value, msg)
         IN  IF sources.raised THEN Json([error |-> sources.desc], 500)
             ELSE Json([reply |-> bot_reply, sources |-> sources.value], 200)

\* lines 162-192, given what the call returned or raised
Shape(ext, msg) ==
    IF ext.raised THEN Json([error |-> ext.desc], 500)
    ELSE IF ~Has(ext.value, "output") THEN Json([error |-> "'output'"], 500)
    ELSE IF ~Has(ext.value.output, "text") THEN Json([error |-> "'text'"], 500)
    ELSE LET bot_reply == ext.value.output.text
             sources == Sources(ext.value, msg)
         IN  IF sources.raised THEN Json([error |-> sources.desc], 500)
             ELSE Json([reply |-> bot_reply, sources |-> sources.value], 200)

\* A POST /chat arrives: lines 128-130, and for a non-empty message the
\* handler enters client.retrieve_and_generate (line 133).
ChatRequest ==
    /\ pc = "serving"
    /\ "/chat" \in routes
    /\ hpc = "idle"
    /\ \E body \in Bodies :
         LET m == Line128(body)
         IN  /\ req' = body
             /\ IF m.raised
                THEN /\ escaped' = m
                     /\ hpc' = "done"
                     /\ UNCHANGED << user_message, response, extCalls, extInput >>
                ELSE /\ user_message' = m.value
                     /\ escaped' = None
                     /\ IF m.value = <<>>
                        THEN /\ response' = Json([error |-> "Empty message"], 400)
                             /\ hpc' = "done"
                             /\ UNCHANGED << extCalls, extInput >>
                        ELSE /\ extCalls' = extCalls + 1
                             /\ extInput' = m.value
                             /\ hpc' = "awaiting"
                             /\ UNCHANGED response
    /\ UNCHANGED << env, pc, AWS_REGION, startup_error, routes, extResult >>

\* Resume calling the service a second time when the first attempt raised
ResumeRetry(ext) ==
    /\ hpc = "awaiting"
    /\ extResult' = ext
    /\ extCalls' = IF ext.raised THEN extCalls + 1 ELSE extCalls
    /\ response' = Shape(ext, user_message)
    /\ hpc' = "done"
    /\ UNCHANGED << env, pc, AWS_REGION, startup_error, routes, req, user_message,
                    extInput, escaped >>

\* The call returns or raises; the handler runs lines 162-192 to its return.
Resume(ext) ==
    /\ hpc = "awaiting"
    /\ extResult' = ext
    /\ response' = Shape(ext, user_message)
    /\ hpc' = "done"
    /\ UNCHANGED << env, pc, AWS_REGION, startup_error, routes, req, user_message,
                    extCalls, extInput, escaped >>

ExternalReturn ==
    /\ hpc = "awaiting"
    /\ \E ext \in ExtResults : Resume(ext)

\* The response (or the uncaught exception) has left the handler; its locals
\* are discarded and the next request can be taken.
Finish ==
    /\ hpc = "done"
    /\ hpc' = "idle"
    /\ req' = None
    /\ user_message' = <<>>
    /\ extCalls' = 0
    /\ extInput' = <<>>
    /\ extResult' = None
    /\ response' = None
    /\ escaped' = None
    /\ UNCHANGED << env, pc, AWS_REGION, startup_error, routes >>

Init ==
    /\ env \in {e \in [EnvNames -> {Unset, "", "v", "us-east-1"}] :
                  \A n \in EnvNames : e[n] \in EnvValues(n)}
    /\ pc = "boot"
    /\ AWS_REGION = Unset
    /\ startup_error = None
    /\ routes = {}
    /\ hpc = "idle"
    /\ req = None
    /\ user_message = <<>>
    /\ extCalls = 0
    /\ extInput = <<>>
    /\ extResult = None
    /\ response = None
    /\ escaped = None

Next == Startup \/ ChatRequest \/ ExternalReturn \/ Finish

Spec == Init /\ [][Next]_vars


(***************************************************************************)
(* The snippet computation over every text length around SnippetLimit:    *)
(* the handler is suspended in the call for a message that matches no     *)
(* greeting keyword, and the call returns one citation with one reference.*)
(***************************************************************************)
SnipMessage == <<"\t","k","y","c","\n">>

SnipRefs ==
    {[content |-> [text |-> MkText(n)], location |-> S3Location("s3://a")] :
        n \in 0..(SnippetLimit + TextOver)}
    \cup {[content |-> EmptyDict, location |-> [s3Location |-> EmptyDict]]}

SnipInit ==
    /\ env = [n \in EnvNames |-> IF n = "AWS_REGION" THEN Unset ELSE "v"]
    /\ pc = "serving"
    /\ AWS_REGION = DefaultRegion
    /\ startup_error = None
    /\ routes = {"/", "/chat"}
    /\ hpc = "awaiting"
    /\ req = JsonObject([message |-> JsonStr(SnipMessage)])
    /\ user_message = Strip(SnipMessage)
    /\ extCalls = 1
    /\ extInput = Strip(SnipMessage)
    /\ extResult = None
    /\ response = None
    /\ escaped = None

SnipReturn ==
    /\ hpc = "awaiting"
    /\ \E ref \in SnipRefs :
         Resume(Returned([output |-> GoodOutput,
                          citations |-> <<[retrievedReferences |-> <<ref>>]>>]))

SnipNext == SnipReturn

SnipSpec == SnipInit /\ [][SnipNext]_vars


(***************************************************************************)
(* Vocabulary of the properties, stated on the request and on what the    *)
(* call returned rather than on the handler's locals.                     *)
(***************************************************************************)
Blank(str) == \A k \in 1..Len(str) : str[k] \in Whitespace

\* the body is a JSON object whose message is absent, empty or whitespace only
ReqBlank ==
    /\ req.type = "object"
    /\ \/ ~Has(req.val, "message")
       \/ req.val.message.type = "str" /\ Blank(req.val.message.val)

\* the body is a JSON object whose message is a string with a non-blank character
ReqNonBlank ==
    /\ req.type = "object"
    /\ Has(req.val, "message")
    /\ req.val.message.type = "str"
    /\ ~Blank(req.val.message.val)

\* the lowercased message contains a greeting substring
ReqGreeting ==
    /\ ReqNonBlank
    /\ LET lowered == Lower(req.val.message.val)
       IN  \E k \in 1..Len(greeting_keywords) : Contains(lowered, greeting_keywords[k])

\* the handler has returned a response after the call came back
Answered == hpc = "done" /\ response # None /\ extResult # None

\* the call returned a result that carries the generated text
ExtHasText ==
    /\ ~extResult.raised
    /\ Has(extResult.value, "output")
    /\ Has(extResult.value.output, "text")

ExtCitations == Get(extResult.value, "citations", <<>>)

ExtRefs(j) == Get(ExtCitations[j], "retrievedReferences", <<>>)

\* every reference of every citation has its content field
RefsWellFormed ==
    \A j \in 1..Len(ExtCitations) : \A r \in 1..Len(ExtRefs(j)) : Has(ExtRefs(j)[r], "content")

RECURSIVE RefsBefore(_, _)
\* the number of references in the citations before the j-th
RefsBefore(citations, j) ==
    IF j <= 1 THEN 0
    ELSE RefsBefore(citations, j - 1) + RefCount(citations[j - 1])

\* the shaped response of a question (no greeting) on a well-formed result
QuestionAnswered ==
    Answered /\ ReqNonBlank /\ ExtHasText /\ RefsWellFormed /\ ~ReqGreeting


(***************************************************************************)
(* Properties.                                                             *)
(***************************************************************************)

\* C1: a request whose message is absent, empty or whitespace only is
\* answered 400 {"error": "Empty message"} and the external service is never
\* invoked for it.
C1_EmptyMessageRejected ==
    (hpc # "idle" /\ ReqBlank) =>
        /\ hpc = "done"
        /\ response = Json([error |-> "Empty message"], 400)
        /\ escaped = None
        /\ extCalls = 0
        /\ extResult = None

C1_Witness ==
    /\ hpc = "done"
    /\ req = JsonObject([message |-> JsonStr(<<"\t", "\n", " ">>)])
    /\ response # None
    /\ response.status = 400

\* C2: a non-empty message whose lowercased form contains a greeting
\* substring gets, when the call returned a result with its text, a 200
\* response whose sources are empty whatever citations the result carries.
C2_GreetingHasNoSources ==
    (Answered /\ ExtHasText /\ ReqGreeting) =>
        /\ response.status = 200
        /\ DOMAIN response.body = {"reply", "sources"}
        /\ response.body.sources = <<>>
        /\ response.body.reply = extResult.value.output.text

C2_Witness ==
    /\ Answered
    /\ req = JsonObject([message |-> JsonStr(<<"t", "h", "i", "s">>)])
    /\ ExtHasText
    /\ RefsWellFormed
    /\ RefsBefore(ExtCitations, Len(ExtCitations) + 1) >= 2
    /\ response.body.sources = <<>>

\* C3: for a message matching no greeting substring and a well-formed result,
\* sources has one entry per reference, in encounter order (citations in
\* order, references in order within each), and each entry's id is the
\* 1-based position of its enclosing citation.
C3_SourcesFollowCitations ==
    QuestionAnswered =>
        /\ response.status = 200
        /\ LET src == response.body.sources
               cs == ExtCitations
           IN  /\ Len(src) = RefsBefore(cs, Len(cs) + 1)
               /\ \A j \in 1..Len(cs) : \A r \in 1..Len(ExtRefs(j)) :
                    LET entry == src[RefsBefore(cs, j) + r]
                        ref == ExtRefs(j)[r]
                    IN  /\ entry.id = j
                        /\ entry.snippet = Snippet(Get(ref.content, "text", <<>>))
                        /\ entry.file = Uri(ref)

C3_Witness ==
    /\ QuestionAnswered
    /\ Len(ExtCitations) = 2
    /\ Len(ExtRefs(1)) = 2
    /\ Len(ExtRefs(2)) = 1
    /\ ExtRefs(1)[1] # ExtRefs(1)[2]
    /\ Len(response.body.sources) = 3
    /\ response.body.sources[3].id = 2

\* C4: a reference text of at most 500 characters is its own snippet (at
\* exactly 500 no ellipsis is appended); a longer one gives its first 500
\* characters followed by "..."; no snippet exceeds 503 characters.
C4_SnippetTruncation ==
    (QuestionAnswered /\ response.status = 200) =>
        \A j \in 1..Len(ExtCitations) : \A r \in 1..Len(ExtRefs(j)) :
            LET text == Get(ExtRefs(j)[r].content, "text", <<>>)
                snippet == response.body.sources[RefsBefore(ExtCitations, j) + r].snippet
            IN  /\ Len(text) <= SnippetLimit => snippet = text
                /\ Len(text) >= SnippetLimit + 1 =>
                     /\ Len(snippet) = SnippetLimit + 3
                     /\ SubSeq(snippet, 1, SnippetLimit) = SubSeq(text, 1, SnippetLimit)
                     /\ SubSeq(snippet, SnippetLimit + 1, SnippetLimit + 3) = <<".", ".", ".">>
                /\ Len(snippet) <= SnippetLimit + 3

C4_Witness ==
    /\ QuestionAnswered
    /\ Len(ExtCitations) = 1
    /\ Len(ExtRefs(1)) = 1
    /\ Len(Get(ExtRefs(1)[1].content, "text", <<>>)) = SnippetLimit
    /\ Len(response.body.sources[1].snippet) = SnippetLimit

\* C5: when the call raises, the response is 500, its error field is the
\* failure's description, and it has no reply and no sources field.
C5_FailureGives500 ==
    (Answered /\ extResult.raised) =>
        /\ response.status = 500
        /\ DOMAIN response.body = {"error"}
        /\ response.body.error = extResult.desc

C5_Witness ==
    /\ Answered
    /\ extResult.raised
    /\ response.status = 500

\* C6: whatever the request body and the external result, the handler ends
\* in one of 400 "Empty message", 200 with reply and sources, or 500 with an
\* error field; no exception leaves the handler.
C6_NoExceptionEscapes ==
    hpc = "done" =>
        /\ escaped = None
        /\ response # None
        /\ \/ response = Json([error |-> "Empty message"], 400)
           \/ response.status = 200 /\ DOMAIN response.body = {"reply", "sources"}
           \/ response.status = 500 /\ DOMAIN response.body = {"error"}

\* C7: for a request with a non-empty trimmed message the service is
\* invoked exactly once: the handler has no response while it is inside the
\* call, and its 200 or 500 response comes with one invocation made and
\* that invocation's outcome in hand, also when the attempt failed.
C7_SingleAttempt ==
    /\ extCalls <= 1
    /\ hpc = "awaiting" =>
         ReqNonBlank /\ extCalls = 1 /\ response = None /\ extResult = None
    /\ (hpc = "done" /\ ReqNonBlank) =>
         /\ extCalls = 1
         /\ extResult # None
         /\ response # None
         /\ response.status \in {200, 500}

C7_Witness ==
    /\ hpc = "done"
    /\ ReqNonBlank
    /\ extResult # None
    /\ extResult.raised
    /\ extCalls = 1
    /\ response.status = 500


RequiredNames == {required_vars[k] : k \in 1..Len(required_vars)}

\* the required identifiers that are unset or empty in the environment
RequiredMissing == {n \in RequiredNames : env[n] \in {Unset, ""}}

\* C9: with a required identifier unset or empty, startup aborts with an
\* error naming exactly the missing ones; an aborted (or not yet started)
\* process has no route and handles no request; an unset region alone never
\* aborts startup, the region being the default.
C9_FailFast ==
    /\ (pc # "boot" /\ RequiredMissing # {}) =>
         /\ pc = "aborted"
         /\ startup_error.type = "EnvironmentError"
         /\ {startup_error.names[k] : k \in 1..Len(startup_error.names)} = RequiredMissing
         /\ Len(startup_error.names) = Cardinality(RequiredMissing)
    /\ pc # "serving" =>
         /\ routes = {}
         /\ hpc = "idle"
         /\ req = None
         /\ response = None
         /\ extCalls = 0
    /\ (pc # "boot" /\ RequiredMissing = {} /\ env["AWS_REGION"] = Unset) =>
         /\ pc = "serving"
         /\ startup_error = None
         /\ AWS_REGION = DefaultRegion

C9_Witness ==
    /\ pc = "aborted"
    /\ env["AWS_ACCESS_KEY_ID"] = "v"
    /\ env["AWS_SECRET_ACCESS_KEY"] = "v"
    /\ env["KB_ID"] = ""
    /\ env["MODEL_ARN"] = Unset
    /\ env["AWS_REGION"] = Unset
    /\ startup_error.type = "EnvironmentError"
    /\ startup_error.names = <<"KB_ID", "MODEL_ARN">>

\* C10: on a result that carries its text but has a reference without a
\* content field, a greeting message is answered 200 with empty sources and
\* any other message 500 with an error field: the greeting branch never
\* reads the citations.
C10_OutcomeDependsOnMessage ==
    (Answered /\ ReqNonBlank /\ ExtHasText /\ ~RefsWellFormed) =>
        IF ReqGreeting
        THEN /\ response.status = 200
             /\ response.body.sources = <<>>
        ELSE /\ response.status = 500
             /\ DOMAIN response.body = {"error"}
             /\ response.body.error = "'content'"

C10_Witness ==
    /\ Answered
    /\ ReqGreeting
    /\ ExtHasText
    /\ ~RefsWellFormed
    /\ response.status = 200
    /\ response.body.sources = <<>>

====
